---- MODULE Spec2Model ----
(***************************************************************************)
(* Model of worker/schema.go: the schema scatter/gather coordinator        *)
(* GetSchemaOverNetwork, its per-group task getSchemaOverNetwork, the      *)
(* request partitioner addToSchemaMap, the local projector getSchema /     *)
(* populateSchema and the remote entry point grpcWorker.Schema.            *)
(*                                                                         *)
(* The topology oracle (groups()), the schema catalog (schema.State()),    *)
(* x.HealthCheck and the remote transport are collaborators: their answers *)
(* are inputs, drawn from bounded sets at the step that consults them.     *)
(***************************************************************************)
EXTENDS Integers, Sequences, FiniteSets, TLC

\* ---------------------------------------------------------------- bounds
\* Group ids are 0..MaxGid; 0 is the "no owning group" id.
MaxGid == 2
\* Longest predicate list of a request.
MaxPreds == 2

GroupIds == 0..MaxGid
Preds == {"name", "age"}

\* Sequences over S of length at most n.
SeqsUpTo(S, n) == UNION {[1..k -> S] : k \in 0..n}

\* The elements of a sequence.
Range(s) == {s[k] : k \in DOMAIN s}

\* ---------------------------------------------------------------- errors
NoErr == "nil"
errHealth == "x.HealthCheck: not ready"
errUnservedTablet == "Tablet isn't being served by this instance"
ErrNoConnection == "No connection exists"
errCanceled == "context canceled"
errWrongGroup == "This server doesn't serve group id"
errTransport == "rpc error: transport"

\* ------------------------------------------------------- schema catalog
\* schema.State() as the projector reads it: the predicate list Predicates()
\* and, per predicate, whether TypeOf succeeds and what the flag getters say.
Undefined == [Defined |-> FALSE, Type |-> "", Indexed |-> FALSE,
              Tokenizers |-> <<>>, Reversed |-> FALSE, Count |-> FALSE,
              List |-> FALSE, Upsert |-> FALSE, Lang |-> FALSE]
StringIndexed == [Defined |-> TRUE, Type |-> "string", Indexed |-> TRUE,
                  Tokenizers |-> <<"term">>, Reversed |-> FALSE, Count |-> FALSE,
                  List |-> FALSE, Upsert |-> TRUE, Lang |-> TRUE]
IntPlain == [Defined |-> TRUE, Type |-> "int", Indexed |-> FALSE,
             Tokenizers |-> <<>>, Reversed |-> FALSE, Count |-> TRUE,
             List |-> FALSE, Upsert |-> FALSE, Lang |-> FALSE]

Catalogs ==
    { [Predicates |-> <<"name", "age">>,
       Entry |-> [p \in Preds |-> IF p = "name" THEN StringIndexed ELSE IntPlain]],
      [Predicates |-> <<"name", "age">>,
       Entry |-> [p \in Preds |-> IF p = "name" THEN StringIndexed ELSE Undefined]] }

\* The default field list of getSchema (lines 58-59).
DefaultFields ==
    <<"type", "index", "tokenizer", "reverse", "count", "list", "upsert", "lang">>

\* Field lists a request may carry (an empty list selects DefaultFields).
FieldChoices == {<<"type", "index", "tokenizer">>}

\* ------------------------------------------------------ local projector
\* var schemaNode api.SchemaNode: the zero value.
ZeroNode == [Predicate |-> "", Type |-> "", Index |-> FALSE, Tokenizer |-> <<>>,
             Reverse |-> FALSE, Count |-> FALSE, List |-> FALSE,
             Upsert |-> FALSE, Lang |-> FALSE]

\* Mutant of setField: case "tokenizer" without the IsIndexed test.
setFieldNoIndexGuard(node, attr, field, cat) ==
    LET e == cat.Entry[attr] IN
    CASE field = "type"      -> [node EXCEPT !.Type = e.Type]
      [] field = "index"     -> [node EXCEPT !.Index = e.Indexed]
      [] field = "tokenizer" -> [node EXCEPT !.Tokenizer = e.Tokenizers]
      [] field = "reverse"   -> [node EXCEPT !.Reverse = e.Reversed]
      [] field = "count"     -> [node EXCEPT !.Count = e.Count]
      [] field = "list"      -> [node EXCEPT !.List = e.List]
      [] field = "upsert"    -> [node EXCEPT !.Upsert = e.Upsert]
      [] field = "lang"      -> [node EXCEPT !.Lang = e.Lang]
      [] OTHER               -> node

\* One iteration of the switch of populateSchema (lines 86-107).
setField(node, attr, field, cat) ==
    LET e == cat.Entry[attr] IN
    CASE field = "type"      -> [node EXCEPT !.Type = e.Type]
      [] field = "index"     -> [node EXCEPT !.Index = e.Indexed]
      [] field = "tokenizer" -> IF e.Indexed
                                THEN [node EXCEPT !.Tokenizer = e.Tokenizers]
                                ELSE node
      [] field = "reverse"   -> [node EXCEPT !.Reverse = e.Reversed]
      [] field = "count"     -> [node EXCEPT !.Count = e.Count]
      [] field = "list"      -> [node EXCEPT !.List = e.List]
      [] field = "upsert"    -> [node EXCEPT !.Upsert = e.Upsert]
      [] field = "lang"      -> [node EXCEPT !.Lang = e.Lang]
      [] OTHER               -> node

RECURSIVE populateFields(_, _, _, _)
populateFields(node, attr, fields, cat) ==
    IF fields = <<>> THEN node
    ELSE populateFields(setField(node, attr, Head(fields), cat), attr, Tail(fields), cat)

\* Mutant of populateSchema: the TypeOf error is ignored and the zero node returned.
populateSchemaZero(attr, fields, cat) ==
    IF ~cat.Entry[attr].Defined THEN <<ZeroNode>>
    ELSE <<populateFields([ZeroNode EXCEPT !.Predicate = attr], attr, fields, cat)>>

\* populateSchema (lines 76-110): <<>> stands for the nil return, <<node>> for a node.
populateSchema(attr, fields, cat) ==
    IF ~cat.Entry[attr].Defined THEN <<>>
    ELSE <<populateFields([ZeroNode EXCEPT !.Predicate = attr], attr, fields, cat)>>

RECURSIVE projectAll(_, _, _, _)
projectAll(predicates, fields, cat, servesTablet) ==
    IF predicates = <<>> THEN <<>>
    ELSE LET attr == Head(predicates)
             rest == projectAll(Tail(predicates), fields, cat, servesTablet)
         IN IF attr \notin servesTablet THEN rest
            ELSE populateSchema(attr, fields, cat) \o rest

\* getSchema (lines 43-73): the result's Schema list; the error is always nil.
getSchema(s, cat, servesTablet) ==
    LET predicates == IF Len(s.Predicates) > 0 THEN s.Predicates ELSE cat.Predicates
        fields == IF Len(s.Fields) > 0 THEN s.Fields ELSE DefaultFields
    IN [result |-> projectAll(predicates, fields, cat, servesTablet), err |-> NoErr]

\* grpcWorker.Schema (lines 207-216) on the node that receives the call.
Schema(cerr, servesGroup, s, cat, servesTablet) ==
    IF cerr # NoErr THEN [result |-> <<>>, err |-> cerr]
    ELSE IF ~servesGroup THEN [result |-> <<>>, err |-> errWrongGroup]
    ELSE getSchema(s, cat, servesTablet)

\* ---------------------------------------------------- request partitioner
\* Mutant of appendPredicate: the sub-request's list is overwritten, not appended to.
appendPredicateOverwrite(s, attr) == [s EXCEPT !.Predicates = <<attr>>]

\* s.Predicates = append(s.Predicates, attr) (line 123).
appendPredicate(s, attr) == [s EXCEPT !.Predicates = Append(@, attr)]

\* &pb.SchemaRequest{GroupId: gid} with s.Fields = schema.Fields (lines 119-120).
newSubRequest(gid, fields) == [GroupId |-> gid, Predicates |-> <<>>, Fields |-> fields]

\* The first loop of addToSchemaMap (lines 115-124); bt is BelongsTo.
RECURSIVE addPredicates(_, _, _, _)
addPredicates(m, predicates, fields, bt) ==
    IF predicates = <<>> THEN m
    ELSE LET attr == Head(predicates)
             gid == bt[attr]
             s == IF gid \in DOMAIN m THEN m[gid] ELSE newSubRequest(gid, fields)
             m2 == [x \in DOMAIN m \cup {gid} |->
                      IF x = gid THEN appendPredicate(s, attr) ELSE m[x]]
         IN addPredicates(m2, Tail(predicates), fields, bt)

\* Mutant of skipGroup: group 0 of KnownGroups() is not skipped.
skipGroupNever(gid) == FALSE

\* if gid == 0 { continue } (lines 132-134).
skipGroup(gid) == gid = 0

\* The second loop of addToSchemaMap (lines 130-141); kg is KnownGroups().
addKnownGroups(m, fields, kg) ==
    LET add == {gid \in kg : ~skipGroup(gid)} IN
    [x \in DOMAIN m \cup add |->
       IF x \in DOMAIN m THEN m[x] ELSE newSubRequest(x, fields)]

\* addToSchemaMap (lines 114-142).
addToSchemaMap(m, schema, bt, kg) ==
    LET m1 == addPredicates(m, schema.Predicates, schema.Fields, bt) IN
    IF Len(schema.Predicates) > 0 THEN m1 ELSE addKnownGroups(m1, schema.Fields, kg)

\* make(map[uint32]*pb.SchemaRequest) (line 176).
EmptyMap == [x \in {} |-> newSubRequest(0, <<>>)]

\* Mutant of chanCap: make(chan resultErr), an unbuffered channel.
chanCapUnbuffered(m) == 0

\* make(chan resultErr, len(schemaMap)) (line 179).
chanCap(m) == Cardinality(DOMAIN m)


\* ctx.Err() (line 199): nil until the context is cancelled.
ctxErr(c) == IF c THEN errCanceled ELSE NoErr

\* Mutant of isError: the error of a received result is not looked at.
isErrorNever(r) == FALSE

\* if r.err != nil (line 194).
isError(r) == r.err # NoErr

\* Mutant of errorReturn: every failure is reported as conn.ErrNoConnection.
errorReturnFixed(nodes, err) == [nodes |-> <<>>, err |-> ErrNoConnection]

\* Mutant of errorReturn: return schemaNodes, err.
errorReturnPartial(nodes, err) == [nodes |-> nodes, err |-> err]

\* return nil, err on the error paths (lines 172, 195, 199).
errorReturn(nodes, err) == [nodes |-> <<>>, err |-> err]

\* Mutant of appendNodes: schemaNodes = r.result.Schema.
appendNodesOverwrite(nodes, r) == r.result

\* schemaNodes = append(schemaNodes, r.result.Schema...) (line 197).
appendNodes(nodes, r) == nodes \o r.result

\* ----------------------------------------------------------------- state
VARIABLES
    healthy,        \* whether x.HealthCheck() returns nil
    schema,         \* the request: [Predicates, Fields]
    cancelled,      \* whether ctx is done
    cancelledFirst, \* history: ctx was cancelled while no task had yet sent
    pc,             \* position of GetSchemaOverNetwork
    belongsTo,      \* BelongsTo answers of the oracle, per consulted predicate
    knownGroups,    \* KnownGroups() answer of the oracle, when consulted
    schemaMap,      \* map[uint32]*pb.SchemaRequest
    toVisit,        \* keys the range loop of line 182 has not yet visited
    results,        \* buffer of the results channel
    schemaNodes,    \* accumulated []*api.SchemaNode
    i,              \* counter of the aggregation loop
    ret,            \* what GetSchemaOverNetwork returned: [nodes, err]
    task,           \* per group id: the goroutine's position and its resultErr
    node            \* one node seen from inside: its oracle and catalog, and the
                    \* handler (grpcWorker.Schema or a getSchemaOverNetwork task)
                    \* that runs on it, with the calls it has made

vars == <<healthy, schema, cancelled, cancelledFirst, pc, belongsTo, knownGroups,
          schemaMap, toVisit, results, schemaNodes, i, ret, task, node>>

coordVars == <<pc, belongsTo, knownGroups, schemaMap, toVisit, schemaNodes, i, ret>>

NoResult == [result |-> <<>>, err |-> NoErr]
IdleTask == [pc |-> "idle", res |-> NoResult]

\* No handler is looked at from inside.
IdleNode == [op |-> "none"]

Requests == [Predicates : SeqsUpTo(Preds, MaxPreds), Fields : FieldChoices]

Init ==
    /\ healthy \in BOOLEAN
    /\ schema \in Requests
    /\ cancelled = FALSE
    /\ cancelledFirst = FALSE
    /\ pc = "start"
    /\ belongsTo = EmptyMap
    /\ knownGroups = {}
    /\ schemaMap = EmptyMap
    /\ toVisit = {}
    /\ results = <<>>
    /\ schemaNodes = <<>>
    /\ i = 0
    /\ ret = [nodes |-> <<>>, err |-> NoErr]
    /\ task = [g \in GroupIds |-> IdleTask]
    /\ node = IdleNode

\* ------------------------------------------------- GetSchemaOverNetwork
\* if err := x.HealthCheck(); err != nil { return nil, err } (lines 171-173).
HealthCheckFail ==
    /\ pc = "start"
    /\ ~healthy
    /\ ret' = errorReturn(schemaNodes, errHealth)
    /\ pc' = "done"
    /\ UNCHANGED <<node, healthy, schema, cancelled, cancelledFirst, belongsTo, knownGroups,
                   schemaMap, toVisit, results, schemaNodes, i, task>>

\* Mutant of Partition: the request is partitioned without regard to the health check.
PartitionUnchecked ==
    /\ pc = "start"
    /\ \E bt \in [Range(schema.Predicates) -> GroupIds] :
       \E kg \in (IF Len(schema.Predicates) > 0 THEN {{}} ELSE SUBSET GroupIds) :
          /\ belongsTo' = bt
          /\ knownGroups' = kg
          /\ schemaMap' = addToSchemaMap(EmptyMap, schema, bt, kg)
    /\ toVisit' = DOMAIN schemaMap'
    /\ pc' = "dispatch"
    /\ UNCHANGED <<node, healthy, schema, cancelled, cancelledFirst, results, schemaNodes,
                   i, ret, task>>

\* Lines 176-180: build the map, make the channel. The oracle answers
\* BelongsTo for each requested predicate, and KnownGroups() when none is named.
Partition ==
    /\ pc = "start"
    /\ healthy
    /\ \E bt \in [Range(schema.Predicates) -> GroupIds] :
       \E kg \in (IF Len(schema.Predicates) > 0 THEN {{}} ELSE SUBSET GroupIds) :
          /\ belongsTo' = bt
          /\ knownGroups' = kg
          /\ schemaMap' = addToSchemaMap(EmptyMap, schema, bt, kg)
    /\ toVisit' = DOMAIN schemaMap'
    /\ pc' = "dispatch"
    /\ UNCHANGED <<node, healthy, schema, cancelled, cancelledFirst, results, schemaNodes,
                   i, ret, task>>

\* Mutant of DispatchZero: key 0 is skipped (continue) instead of returned on.
DispatchZeroSkip(gid) ==
    /\ pc = "dispatch"
    /\ gid \in toVisit
    /\ gid = 0
    /\ toVisit' = toVisit \ {gid}
    /\ UNCHANGED <<node, healthy, schema, cancelled, cancelledFirst, pc, belongsTo, knownGroups,
                   schemaMap, results, schemaNodes, i, ret, task>>

\* Lines 183-185: the range loop reaches key 0.
DispatchZero(gid) ==
    /\ pc = "dispatch"
    /\ gid \in toVisit
    /\ gid = 0
    /\ ret' = [nodes |-> schemaNodes, err |-> errUnservedTablet]
    /\ pc' = "done"
    /\ UNCHANGED <<node, healthy, schema, cancelled, cancelledFirst, belongsTo, knownGroups,
                   schemaMap, toVisit, results, schemaNodes, i, task>>

\* Line 186: go getSchemaOverNetwork(ctx, gid, s, results).
DispatchTask(gid) ==
    /\ pc = "dispatch"
    /\ gid \in toVisit
    /\ gid # 0
    /\ task' = [task EXCEPT ![gid] = [pc |-> "start", res |-> NoResult]]
    /\ toVisit' = toVisit \ {gid}
    /\ UNCHANGED <<node, healthy, schema, cancelled, cancelledFirst, pc, belongsTo,
                   knownGroups, schemaMap, results, schemaNodes, i, ret>>

\* The range loop of line 182 is over: enter the loop of line 191.
DispatchEnd ==
    /\ pc = "dispatch"
    /\ toVisit = {}
    /\ pc' = "aggregate"
    /\ i' = 0
    /\ UNCHANGED <<node, healthy, schema, cancelled, cancelledFirst, belongsTo, knownGroups,
                   schemaMap, toVisit, results, schemaNodes, ret, task>>

\* case r := <-results (lines 193-197).
AggRecv ==
    /\ pc = "aggregate"
    /\ i < Cardinality(DOMAIN schemaMap)
    /\ results # <<>>
    /\ LET r == Head(results) IN
         IF isError(r)
         THEN /\ ret' = errorReturn(schemaNodes, r.err)
              /\ pc' = "done"
              /\ UNCHANGED <<schemaNodes, i>>
         ELSE /\ schemaNodes' = appendNodes(schemaNodes, r)
              /\ i' = i + 1
              /\ UNCHANGED <<ret, pc>>
    /\ results' = Tail(results)
    /\ UNCHANGED <<node, healthy, schema, cancelled, cancelledFirst, belongsTo, knownGroups,
                   schemaMap, toVisit, task>>

\* Mutant of AggCancel: the select runs before the loop condition is tested.
AggCancelNoLoopGuard ==
    /\ pc = "aggregate"
    /\ cancelled
    /\ ret' = errorReturn(schemaNodes, ctxErr(cancelled))
    /\ pc' = "done"
    /\ UNCHANGED <<node, healthy, schema, cancelled, cancelledFirst, belongsTo, knownGroups,
                   schemaMap, toVisit, results, schemaNodes, i, task>>

\* Mutant of AggCancel: a break that leaves only the select, so the loop goes on.
AggCancelBreak ==
    /\ pc = "aggregate"
    /\ i < Cardinality(DOMAIN schemaMap)
    /\ cancelled
    /\ i' = i + 1
    /\ UNCHANGED <<node, healthy, schema, cancelled, cancelledFirst, pc, belongsTo, knownGroups,
                   schemaMap, toVisit, results, schemaNodes, ret, task>>

\* case <-ctx.Done() (lines 198-199).
AggCancel ==
    /\ pc = "aggregate"
    /\ i < Cardinality(DOMAIN schemaMap)
    /\ cancelled
    /\ ret' = errorReturn(schemaNodes, ctxErr(cancelled))
    /\ pc' = "done"
    /\ UNCHANGED <<node, healthy, schema, cancelled, cancelledFirst, belongsTo, knownGroups,
                   schemaMap, toVisit, results, schemaNodes, i, task>>

\* return schemaNodes, nil (line 203).
AggReturn ==
    /\ pc = "aggregate"
    /\ i >= Cardinality(DOMAIN schemaMap)
    /\ ret' = [nodes |-> schemaNodes, err |-> NoErr]
    /\ pc' = "done"
    /\ UNCHANGED <<node, healthy, schema, cancelled, cancelledFirst, belongsTo, knownGroups,
                   schemaMap, toVisit, results, schemaNodes, i, task>>

GetSchemaOverNetwork ==
    \/ HealthCheckFail
    \/ Partition
    \/ \E gid \in GroupIds : DispatchZero(gid)
    \/ \E gid \in GroupIds : DispatchTask(gid)
    \/ DispatchEnd
    \/ AggRecv
    \/ AggCancel
    \/ AggReturn

\* The caller cancels ctx, or its deadline expires.
Cancel ==
    /\ ~cancelled
    /\ cancelled' = TRUE
    /\ cancelledFirst' = (\A g \in GroupIds : task[g].pc # "done")
    /\ UNCHANGED <<node, healthy, schema, results, task>>
    /\ UNCHANGED coordVars

\* ------------------------------------------------- getSchemaOverNetwork
\* Lines 148-149: ServesGroup(gid) is true; the local projector answers.
TaskLocal(gid) ==
    /\ task[gid].pc = "start"
    /\ \E cat \in Catalogs, servesTablet \in SUBSET Preds :
          task' = [task EXCEPT ![gid] =
                     [pc |-> "send", res |-> getSchema(schemaMap[gid], cat, servesTablet)]]
    /\ UNCHANGED <<node, healthy, schema, cancelled, cancelledFirst, results>>
    /\ UNCHANGED coordVars

\* Lines 154-156: ServesGroup(gid) is false and Leader(gid) is nil.
TaskNoConnection(gid) ==
    /\ task[gid].pc = "start"
    /\ task' = [task EXCEPT ![gid] =
                  [pc |-> "send", res |-> [result |-> <<>>, err |-> ErrNoConnection]]]
    /\ UNCHANGED <<node, healthy, schema, cancelled, cancelledFirst, results>>
    /\ UNCHANGED coordVars

\* Lines 159-161: the remote call to the leader starts.
TaskRemoteCall(gid) ==
    /\ task[gid].pc = "start"
    /\ task' = [task EXCEPT ![gid].pc = "call"]
    /\ UNCHANGED <<node, healthy, schema, cancelled, cancelledFirst, results>>
    /\ UNCHANGED coordVars

\* Line 161: c.Schema(ctx, s) returns: a transport failure, or what
\* grpcWorker.Schema answered on the leader.
TaskRemoteReturn(gid) ==
    /\ task[gid].pc = "call"
    /\ \E r \in {[result |-> <<>>, err |-> errTransport]} \cup
                {Schema(ctxErr(c), sg, schemaMap[gid], cat, st) :
                    c \in {FALSE, cancelled}, sg \in BOOLEAN,
                    cat \in Catalogs, st \in SUBSET Preds} :
          task' = [task EXCEPT ![gid] = [pc |-> "send", res |-> r]]
    /\ UNCHANGED <<node, healthy, schema, cancelled, cancelledFirst, results>>
    /\ UNCHANGED coordVars

\* ch <- resultErr{...} (lines 150, 156, 162): blocks while the buffer is full.
TaskSend(gid) ==
    /\ task[gid].pc = "send"
    /\ Len(results) < chanCap(schemaMap)
    /\ results' = Append(results, task[gid].res)
    /\ task' = [task EXCEPT ![gid].pc = "done"]
    /\ UNCHANGED <<node, healthy, schema, cancelled, cancelledFirst>>
    /\ UNCHANGED coordVars

getSchemaOverNetwork(gid) ==
    \/ TaskLocal(gid)
    \/ TaskNoConnection(gid)
    \/ TaskRemoteCall(gid)
    \/ TaskRemoteReturn(gid)
    \/ TaskSend(gid)

Next ==
    \/ GetSchemaOverNetwork
    \/ Cancel
    \/ \E gid \in GroupIds : getSchemaOverNetwork(gid)

Spec == Init /\ [][Next]_vars

\* Fair scheduling of the goroutine that runs GetSchemaOverNetwork: a step of it
\* that stays possible is eventually taken. Nothing is assumed of the tasks
\* (a remote call may hang) nor of the caller (ctx may never be cancelled).
FairSpec == Spec /\ WF_vars(GetSchemaOverNetwork)

\* Fair scheduling of every goroutine: the coordinator, and each task's own steps
\* (its routing, its local lookup, its send). The return of a remote call is
\* left to the network: nothing makes it happen.
TaskFairSpec ==
    /\ Spec
    /\ WF_vars(GetSchemaOverNetwork)
    /\ \A gid \in GroupIds :
          WF_vars(TaskLocal(gid) \/ TaskNoConnection(gid) \/ TaskRemoteCall(gid)
                  \/ TaskSend(gid))

\* ------------------------------------------------- one node, from inside
\* The handlers that run on a single node, with the node's oracle and catalog
\* as state: the remote entry point grpcWorker.Schema, and one
\* getSchemaOverNetwork task with the routing answers it is given. node.log
\* collects the collaborators the handler has called.

\* An unindexed predicate whose TokenizerNames() is not empty.
IntStaleTokens == [Defined |-> TRUE, Type |-> "int", Indexed |-> FALSE,
                   Tokenizers |-> <<"int">>, Reversed |-> FALSE, Count |-> TRUE,
                   List |-> TRUE, Upsert |-> FALSE, Lang |-> FALSE]

NodeCatalogs ==
    { [Predicates |-> <<"name", "age">>,
       Entry |-> [p \in Preds |-> IF p = "name" THEN n ELSE a]] :
         n \in {StringIndexed, Undefined}, a \in {IntPlain, IntStaleTokens, Undefined} }

\* Field lists of a sub-request; "sortable" is a field name the switch does not know.
NodeFieldChoices == {<<>>, <<"type", "index">>, <<"index", "tokenizer", "sortable">>}

NodeRequests ==
    [GroupId : GroupIds, Predicates : SeqsUpTo(Preds, MaxPreds), Fields : NodeFieldChoices]

\* groups().ServesGroup(gid): the node serves the group it is a member of;
\* its group id is 0 while its membership is not yet known.
ServesGroup(n, gid) == gid = n.gid

specVars == <<healthy, schema, cancelled, cancelledFirst, pc, belongsTo, knownGroups,
              schemaMap, toVisit, results, schemaNodes, i, ret, task>>

\* The handler is about to run. A task is started for the key of a map entry,
\* which is never 0 (line 183).
NodeStarts ==
    { [op |-> o, pc |-> "entry", gid |-> g, hasLeader |-> l, cat |-> c, tablets |-> tb,
       req |-> r, ctxDone |-> d, log |-> {}, remote |-> NoResult, out |-> NoResult] :
         o \in {"Schema", "getSchemaOverNetwork"}, g \in GroupIds, l \in BOOLEAN,
         c \in NodeCatalogs, tb \in SUBSET Preds, r \in NodeRequests, d \in BOOLEAN }

NodeInit ==
    /\ node \in {n \in NodeStarts :
                    IF n.op = "Schema" THEN ~n.hasLeader ELSE n.req.GroupId # 0}
    /\ healthy = TRUE
    /\ schema = [Predicates |-> <<>>, Fields |-> <<>>]
    /\ cancelled = FALSE
    /\ cancelledFirst = FALSE
    /\ pc = "start"
    /\ belongsTo = EmptyMap
    /\ knownGroups = {}
    /\ schemaMap = EmptyMap
    /\ toVisit = {}
    /\ results = <<>>
    /\ schemaNodes = <<>>
    /\ i = 0
    /\ ret = [nodes |-> <<>>, err |-> NoErr]
    /\ task = [g \in GroupIds |-> IdleTask]

\* Mutant of SchemaCtxCheck: the context is not looked at.
SchemaCtxCheckSkipped ==
    /\ node.op = "Schema"
    /\ node.pc = "entry"
    /\ node' = [node EXCEPT !.pc = "servesGroup"]
    /\ UNCHANGED specVars

\* if ctx.Err() != nil { return &emptySchemaResult, ctx.Err() } (lines 208-210).
SchemaCtxCheck ==
    /\ node.op = "Schema"
    /\ node.pc = "entry"
    /\ node' = IF node.ctxDone
               THEN [node EXCEPT !.pc = "returned",
                                 !.out = [result |-> <<>>, err |-> ctxErr(TRUE)]]
               ELSE [node EXCEPT !.pc = "servesGroup"]
    /\ UNCHANGED specVars

\* Mutant of SchemaServesGroup: the answer of ServesGroup is not acted on.
SchemaServesGroupIgnored ==
    /\ node.op = "Schema"
    /\ node.pc = "servesGroup"
    /\ node' = [node EXCEPT !.pc = "getSchema", !.log = @ \cup {"ServesGroup"}]
    /\ UNCHANGED specVars

\* if !groups().ServesGroup(s.GroupId) { return ..., x.Errorf(...) } (lines 212-214).
SchemaServesGroup ==
    /\ node.op = "Schema"
    /\ node.pc = "servesGroup"
    /\ node' = IF ~ServesGroup(node, node.req.GroupId)
               THEN [node EXCEPT !.pc = "returned",
                                 !.log = @ \cup {"ServesGroup"},
                                 !.out = [result |-> <<>>, err |-> errWrongGroup]]
               ELSE [node EXCEPT !.pc = "getSchema", !.log = @ \cup {"ServesGroup"}]
    /\ UNCHANGED specVars

\* return getSchema(ctx, s) (line 215).
SchemaDelegate ==
    /\ node.op = "Schema"
    /\ node.pc = "getSchema"
    /\ node' = [node EXCEPT !.pc = "returned",
                            !.log = @ \cup {"getSchema"},
                            !.out = getSchema(node.req, node.cat, node.tablets)]
    /\ UNCHANGED specVars

\* if groups().ServesGroup(gid) (line 148).
RouteServesGroup ==
    /\ node.op = "getSchemaOverNetwork"
    /\ node.pc = "entry"
    /\ node' = [node EXCEPT !.log = @ \cup {"ServesGroup"},
                            !.pc = IF ServesGroup(node, node.req.GroupId)
                                   THEN "local" ELSE "leader"]
    /\ UNCHANGED specVars

\* schema, e := getSchema(ctx, s); ch <- resultErr{result: schema, err: e} (lines 149-151).
RouteLocal ==
    /\ node.op = "getSchemaOverNetwork"
    /\ node.pc = "local"
    /\ node' = [node EXCEPT !.pc = "sent",
                            !.log = @ \cup {"getSchema"},
                            !.out = getSchema(node.req, node.cat, node.tablets)]
    /\ UNCHANGED specVars

\* Mutant of RouteLeader: pl is used without the nil test.
RouteLeaderNoNilTest ==
    /\ node.op = "getSchemaOverNetwork"
    /\ node.pc = "leader"
    /\ node' = [node EXCEPT !.pc = "remote", !.log = @ \cup {"Leader"}]
    /\ UNCHANGED specVars

\* pl := groups().Leader(gid); if pl == nil { ch <- resultErr{err: conn.ErrNoConnection} }
\* (lines 154-158).
RouteLeader ==
    /\ node.op = "getSchemaOverNetwork"
    /\ node.pc = "leader"
    /\ node' = IF ~node.hasLeader
               THEN [node EXCEPT !.pc = "sent",
                                 !.log = @ \cup {"Leader"},
                                 !.out = [result |-> <<>>, err |-> ErrNoConnection]]
               ELSE [node EXCEPT !.pc = "remote", !.log = @ \cup {"Leader"}]
    /\ UNCHANGED specVars

\* schema, e := c.Schema(ctx, s) (lines 159-161): the leader's answer, or a
\* transport failure.
RouteRemoteCall ==
    /\ node.op = "getSchemaOverNetwork"
    /\ node.pc = "remote"
    /\ \E r \in {[result |-> <<>>, err |-> errTransport]} \cup
                {Schema(ctxErr(c), sg, node.req, cat, st) :
                    c \in {FALSE, node.ctxDone}, sg \in BOOLEAN,
                    cat \in Catalogs, st \in SUBSET Preds} :
          node' = [node EXCEPT !.pc = "reply", !.log = @ \cup {"c.Schema"}, !.remote = r]
    /\ UNCHANGED specVars

\* ch <- resultErr{result: schema, err: e} (line 162).
RouteRemoteSend ==
    /\ node.op = "getSchemaOverNetwork"
    /\ node.pc = "reply"
    /\ node' = [node EXCEPT !.pc = "sent",
                            !.out = [result |-> node.remote.result, err |-> node.remote.err]]
    /\ UNCHANGED specVars

NodeNext ==
    \/ SchemaCtxCheck
    \/ SchemaServesGroup
    \/ SchemaDelegate
    \/ RouteServesGroup
    \/ RouteLocal
    \/ RouteLeader
    \/ RouteRemoteCall
    \/ RouteRemoteSend

NodeSpec == NodeInit /\ [][NodeNext]_vars

\* ------------------------------------------------------------- helpers
Returned == pc = "done"
Dispatched == {g \in GroupIds : task[g].pc # "idle"}
Completed == {g \in GroupIds : task[g].pc = "done"}
HasZero == 0 \in DOMAIN schemaMap

\* ------------------------------------------------------------- claims

\* C1: if the partition map has an entry for group id 0, GetSchemaOverNetwork
\* returns errUnservedTablet and no getSchemaOverNetwork task was dispatched,
\* whatever the iteration order of the map. (The code dispatches the tasks of
\* the keys the range loop visits before it reaches key 0.)
C1_UnservedBeforeAnyDispatch ==
    (Returned /\ HasZero) =>
        (ret.err = errUnservedTablet /\ Dispatched = {})

\* C2: whenever the partition map has an entry for group id 0 (the health check
\* passed), GetSchemaOverNetwork returns errUnservedTablet with an empty node
\* list, whatever the other entries, their tasks' results and the context.
C2_UnservedTabletReturn ==
    (Returned /\ healthy /\ HasZero) =>
        ret = [nodes |-> <<>>, err |-> errUnservedTablet]

\* C2 witness: returned with key 0 in a map of several entries, the context
\* cancelled and another group's task having produced an error.
C2_Witness ==
    /\ Returned /\ healthy /\ HasZero
    /\ Cardinality(DOMAIN schemaMap) > 1
    /\ cancelled
    /\ \E g \in Dispatched : task[g].res.err = ErrNoConnection
    /\ ret.err = errUnservedTablet

\* C3: every return is (nodes, no error) or (empty list, one error): on every
\* error path the returned node list is empty, also when results of other
\* groups had been accumulated before the error was seen.
C3_NoPartialResultWithError ==
    Returned => (ret.err = NoErr \/ ret.nodes = <<>>)

\* C3 witness: an error return after nodes of another group were accumulated.
C3_Witness ==
    /\ Returned
    /\ ret.err \notin {NoErr, errHealth, errUnservedTablet}
    /\ schemaNodes # <<>>
    /\ ret.nodes = <<>>

\* C4 as stated: if ctx is cancelled before any dispatched task has completed
\* (and the call gets to wait for at least one task), GetSchemaOverNetwork
\* returns the cancellation error and no node list, in every interleaving.
C4_CancelBeforeCompletionReturnsCancel ==
    (Returned /\ healthy /\ DOMAIN schemaMap # {} /\ ~HasZero /\ cancelledFirst) =>
        ret = [nodes |-> <<>>, err |-> errCanceled]

\* C4 amended: if ctx was cancelled before any dispatched task had completed,
\* then every select of the aggregation loop that runs while the results
\* channel is empty returns the cancellation error and no node list. (When a
\* task's result is in the channel both cases of the select are ready and
\* either may be taken.)
C4_CancelWinsOnEmptyChannel ==
    [][ ( /\ pc = "aggregate"
          /\ cancelledFirst
          /\ i < Cardinality(DOMAIN schemaMap)
          /\ results = <<>>
          /\ coordVars' # coordVars )
        => ( /\ pc' = "done"
             /\ ret' = [nodes |-> <<>>, err |-> errCanceled] ) ]_vars

\* C4 witness: the call returned the cancellation error, ctx having been
\* cancelled before any task completed, with a task still in flight.
C4_Witness ==
    /\ Returned
    /\ cancelledFirst
    /\ ret = [nodes |-> <<>>, err |-> errCanceled]
    /\ results = <<>>
    /\ \E g \in Dispatched : task[g].pc \in {"start", "call", "send"}

\* C5: if the task of at least one group of the partition map produced
\* conn.ErrNoConnection, GetSchemaOverNetwork does not return success,
\* whatever the other tasks produced and the order of arrival.
C5_NoConnectionFailsCall ==
    (Returned /\ \E g \in DOMAIN schemaMap : task[g].res.err = ErrNoConnection) =>
        ret.err # NoErr

\* C5 witness: one group produced ErrNoConnection, another group's task
\* completed with a non-empty result, and the call returned an error.
C5_Witness ==
    /\ Returned
    /\ \E g \in DOMAIN schemaMap : task[g].res.err = ErrNoConnection
    /\ \E g \in DOMAIN schemaMap :
          task[g].pc = "done" /\ task[g].res.err = NoErr /\ task[g].res.result # <<>>
    /\ ret.err # NoErr

\* C6: at most one task is dispatched per map entry and each sends once, so the
\* undelivered results never exceed the capacity len(schemaMap) and a task that
\* is about to send always finds room; in every reachable state, also after
\* the aggregator has returned.
C6_SendNeverBlocks ==
    /\ Cardinality(Dispatched) <= chanCap(schemaMap)
    /\ Len(results) <= Cardinality(Completed)
    /\ Len(results) <= chanCap(schemaMap)
    /\ \A g \in GroupIds : task[g].pc = "send" => Len(results) < chanCap(schemaMap)

\* C6 witness: the aggregator returned on cancellation and two tasks sent
\* afterwards into the channel nobody reads.
C6_Witness ==
    /\ Returned
    /\ ret.err = errCanceled
    /\ i = 0
    /\ Len(results) = 2
    /\ Len(results) = chanCap(schemaMap)

\* C7: under fair scheduling of the coordinator, if every dispatched task
\* eventually completes, or ctx is eventually cancelled, the call returns.
C7_CallReturns ==
    ( (\A g \in GroupIds : (task[g].pc # "idle") ~> (task[g].pc = "done"))
      \/ <>cancelled )
    => <>Returned

\* C7 witness: the call returned after cancellation while a task's remote call
\* was still outstanding.
C7_Witness ==
    /\ Returned
    /\ cancelled
    /\ ret.err = errCanceled
    /\ \E g \in Dispatched : task[g].pc = "call"

\* C8: for a request with predicates, each requested predicate is in exactly
\* one map entry, the one keyed by BelongsTo(predicate), and the union of the
\* entries' predicates is the requested set.
C8_PartitionByOwner ==
    (pc # "start" /\ healthy /\ Len(schema.Predicates) > 0) =>
        /\ \A p \in Range(schema.Predicates) :
              /\ belongsTo[p] \in DOMAIN schemaMap
              /\ \A g \in DOMAIN schemaMap :
                    (p \in Range(schemaMap[g].Predicates)) <=> (g = belongsTo[p])
        /\ UNION {Range(schemaMap[g].Predicates) : g \in DOMAIN schemaMap}
              = Range(schema.Predicates)
        /\ \A g \in DOMAIN schemaMap : schemaMap[g].GroupId = g

\* C8 witness: two different predicates owned by the same group were partitioned.
C8_Witness ==
    /\ pc = "dispatch"
    /\ Len(schema.Predicates) = 2
    /\ schema.Predicates[1] # schema.Predicates[2]
    /\ belongsTo[schema.Predicates[1]] = belongsTo[schema.Predicates[2]]
    /\ Cardinality(DOMAIN schemaMap) = 1

\* C9: for a request without predicates, the map has exactly one entry per
\* group id of KnownGroups() other than 0, each with an empty predicate
\* list, and no entry for 0 even when KnownGroups() contains 0.
C9_AllKnownGroupsButZero ==
    (pc # "start" /\ healthy /\ Len(schema.Predicates) = 0) =>
        /\ DOMAIN schemaMap = knownGroups \ {0}
        /\ \A g \in DOMAIN schemaMap :
              schemaMap[g] = [GroupId |-> g, Predicates |-> <<>>, Fields |-> schema.Fields]

\* C9 witness: KnownGroups() held 0 and two other groups.
C9_Witness ==
    /\ pc = "dispatch"
    /\ Len(schema.Predicates) = 0
    /\ 0 \in knownGroups
    /\ Cardinality(DOMAIN schemaMap) = 2

\* The orders in which the results of the groups of S can be received.
Orders(S) == {o \in [1..Cardinality(S) -> S] : Range(o) = S}

\* The node lists the tasks sent, concatenated in the order o.
RECURSIVE ConcatResults(_)
ConcatResults(o) ==
    IF o = <<>> THEN <<>> ELSE task[Head(o)].res.result \o ConcatResults(Tail(o))

\* C10: success is returned only after one result of every map entry's task was
\* received, none an error, and the returned list is the concatenation of those
\* results' node lists in some order of the groups.
C10_SuccessIsAllResults ==
    (Returned /\ healthy /\ ret.err = NoErr) =>
        /\ \A g \in DOMAIN schemaMap : task[g].pc = "done" /\ task[g].res.err = NoErr
        /\ Dispatched = DOMAIN schemaMap
        /\ i = Cardinality(DOMAIN schemaMap)
        /\ results = <<>>
        /\ \E o \in Orders(DOMAIN schemaMap) : ret.nodes = ConcatResults(o)

\* C10 witness: success over two groups that each returned nodes.
C10_Witness ==
    /\ Returned
    /\ ret.err = NoErr
    /\ Cardinality(DOMAIN schemaMap) = 2
    /\ \A g \in DOMAIN schemaMap : task[g].res.result # <<>>
    /\ Len(ret.nodes) >= 2

\* C14: if the health check fails, GetSchemaOverNetwork returns the health error
\* and no node list, and has done no work: no map entry was built, the oracle
\* gave no answer (neither BelongsTo nor KnownGroups), no task was dispatched
\* and nothing was sent or accumulated.
C14_HealthFailsBeforeWork ==
    (~healthy /\ pc # "start") =>
        /\ Returned
        /\ ret = [nodes |-> <<>>, err |-> errHealth]
        /\ schemaMap = EmptyMap
        /\ belongsTo = EmptyMap
        /\ knownGroups = {}
        /\ Dispatched = {}
        /\ results = <<>>
        /\ schemaNodes = <<>>

\* C14 witness: an unhealthy node returned on a request that names predicates.
C14_Witness ==
    /\ ~healthy
    /\ Returned
    /\ Len(schema.Predicates) = 2
    /\ ret.err = errHealth

\* C15: the receive of a result that carries an error makes the call return
\* at once, with exactly that error and no list; the channel is received from in
\* the order of the sends, so the error returned is that of the first failing
\* result received.
C15_FailFast ==
    [][ ( /\ pc = "aggregate"
          /\ results # <<>>
          /\ results' = Tail(results)
          /\ Head(results).err # NoErr )
        => ( /\ pc' = "done"
             /\ ret' = [nodes |-> <<>>, err |-> Head(results).err] ) ]_vars

\* C15 witness: the call returned the error of the first of two failing results
\* it was sent, the second (a different error) still undelivered, while it had
\* not waited for anything else.
C15_Witness ==
    /\ Returned
    /\ ret.err = errWrongGroup
    /\ i = 0
    /\ results # <<>>
    /\ Head(results).err = ErrNoConnection

\* C20: a request without predicates on a node whose oracle knows no group
\* other than 0 has an empty partition map; the call returns success with an
\* empty list, dispatches no task and does not wait on the context (it returns
\* success also when ctx is already cancelled).
C20_NoGroupsEmptySuccess ==
    (healthy /\ pc # "start" /\ Len(schema.Predicates) = 0 /\ knownGroups \subseteq {0}) =>
        /\ schemaMap = EmptyMap
        /\ Dispatched = {}
        /\ results = <<>>
        /\ pc = "aggregate" => (ENABLED AggReturn /\ ~ENABLED AggCancel)
        /\ Returned => ret = [nodes |-> <<>>, err |-> NoErr]

\* C20 witness: KnownGroups() was {0}, ctx is cancelled, and the call returned
\* success with an empty list.
C20_Witness ==
    /\ Returned
    /\ healthy
    /\ Len(schema.Predicates) = 0
    /\ knownGroups = {0}
    /\ cancelledFirst
    /\ ret = [nodes |-> <<>>, err |-> NoErr]

\* The call returned before the loop of line 191 had taken every result.
ReturnedEarly == Returned /\ ret.err # NoErr

\* C16: once the call has returned early, nothing reads the channel any more
\* (it only grows, by the tasks' sends), and every dispatched task whose remote
\* call (if it makes one) returns goes on to its single send and terminates:
\* either the task stays in its remote call for ever, or it does not stay
\* short of "done" after the early return.
C16_StrayTasksComplete ==
    /\ [][ReturnedEarly => results' \in {results} \cup
                               {Append(results, r) : r \in {task[g].res : g \in GroupIds}}]_vars
    /\ \A g \in GroupIds :
          \/ <>[](task[g].pc = "call")
          \/ []<>(~(ReturnedEarly /\ task[g].pc # "idle") \/ task[g].pc = "done")

\* C16 witness: the call returned on finding group id 0, and the task of another
\* group, dispatched before, has since sent its result, which stays in the channel.
C16_Witness ==
    /\ Returned
    /\ ret.err = errUnservedTablet
    /\ \E g \in Dispatched : task[g].pc = "done"
    /\ Len(results) = 1

\* ------------------------------------------- claims about a single node
InSchema == node.op = "Schema"
InTask == node.op = "getSchemaOverNetwork"
Served == ServesGroup(node, node.req.GroupId)

\* C11: grpcWorker.Schema, with a context that is not cancelled, for a group
\* this node does not serve: it returns the wrong-group error with an empty
\* result and never gets to call getSchema.
C11_WrongGroupRejected ==
    (InSchema /\ ~node.ctxDone /\ ~Served) =>
        /\ "getSchema" \notin node.log
        /\ node.pc # "getSchema"
        /\ node.pc = "returned" => node.out = [result |-> <<>>, err |-> errWrongGroup]

\* C11 witness: a member of group 1 or 2 returned the wrong-group error for another
\* non-zero group.
C11_Witness ==
    /\ InSchema
    /\ node.pc = "returned"
    /\ ~node.ctxDone
    /\ node.gid # 0 /\ node.req.GroupId # 0 /\ ~Served
    /\ node.out.err = errWrongGroup

\* C12: grpcWorker.Schema with a cancelled context returns the context's error
\* with an empty result and calls nothing: not the oracle, not getSchema (and
\* so not the catalog), served group or not.
C12_CancelledDoesNoWork ==
    (InSchema /\ node.ctxDone) =>
        /\ node.log = {}
        /\ node.pc \in {"entry", "returned"}
        /\ node.pc = "returned" => node.out = [result |-> <<>>, err |-> errCanceled]

\* C12 witness: the cancelled call was for the group this node serves.
C12_Witness ==
    /\ InSchema
    /\ node.pc = "returned"
    /\ node.ctxDone
    /\ Served
    /\ node.out = [result |-> <<>>, err |-> errCanceled]

\* C13: grpcWorker.Schema called with group_id 0 returns an error, never a
\* projected result, in every state of the oracle. (A node whose own group id
\* is still 0 passes the ServesGroup test and answers.)
C13_GroupZeroNeverAnswered ==
    (InSchema /\ node.pc = "returned" /\ node.req.GroupId = 0) => node.out.err # NoErr

\* C17: routing of a task. If the node serves gid, what is sent is the local
\* projector's result and neither Leader nor the remote call is used; else if
\* there is no leader, ErrNoConnection is sent and no remote call is made; else
\* the remote call's result and error are sent as they are.
C17_Routing ==
    InTask =>
        /\ Served => node.log \subseteq {"ServesGroup", "getSchema"}
        /\ (~Served /\ ~node.hasLeader) => node.log \subseteq {"ServesGroup", "Leader"}
        /\ ~Served => "getSchema" \notin node.log
        /\ node.pc = "sent" =>
              /\ Served => /\ node.log = {"ServesGroup", "getSchema"}
                           /\ node.out = getSchema(node.req, node.cat, node.tablets)
              /\ (~Served /\ ~node.hasLeader) =>
                    node.out = [result |-> <<>>, err |-> ErrNoConnection]
              /\ (~Served /\ node.hasLeader) =>
                    /\ node.log = {"ServesGroup", "Leader", "c.Schema"}
                    /\ node.out = node.remote

\* C17 witness: all three routes have an end; this one is the remote route,
\* whose call failed with the leader's wrong-group error.
C17_Witness ==
    /\ InTask
    /\ node.pc = "sent"
    /\ ~Served /\ node.hasLeader
    /\ node.out.err = errWrongGroup

\* getSchema has run on this node and node.out is what it returned.
Projected ==
    /\ "getSchema" \in node.log
    /\ node.pc \in {"returned", "sent"}

Candidates ==
    IF Len(node.req.Predicates) > 0 THEN node.req.Predicates ELSE node.cat.Predicates

RequestedFields ==
    IF Len(node.req.Fields) > 0 THEN node.req.Fields ELSE DefaultFields

ServedAndDefined(p) == p \in node.tablets /\ node.cat.Entry[p].Defined

\* C18: getSchema returns no error, and its nodes are, in order, one for each
\* candidate predicate that this node serves and the catalog defines; the
\* others are left out, and no node is the zero node.
C18_ProjectorOmits ==
    Projected =>
        /\ node.out.err = NoErr
        /\ [k \in DOMAIN node.out.result |-> node.out.result[k].Predicate]
              = SelectSeq(Candidates, ServedAndDefined)
        /\ \A k \in DOMAIN node.out.result : node.out.result[k] # ZeroNode

\* C18 witness: of two candidates, one was served but undefined and was left out.
C18_Witness ==
    /\ Projected
    /\ Len(Candidates) = 2
    /\ Len(node.out.result) = 1
    /\ \E k \in DOMAIN Candidates :
          Candidates[k] \in node.tablets /\ ~node.cat.Entry[Candidates[k]].Defined

\* C19 as stated: in every node produced, the tokenizer list is the catalog's
\* tokenizer names if the predicate is indexed and empty if it is not.
C19_TokenizerIffIndexed ==
    Projected =>
        \A k \in DOMAIN node.out.result :
           LET n == node.out.result[k]
               e == node.cat.Entry[n.Predicate]
           IN n.Tokenizer = IF e.Indexed THEN e.Tokenizers ELSE <<>>

\* C19 amended: in every node produced, the tokenizer list is the catalog's
\* tokenizer names if the field "tokenizer" is among the fields projected and
\* the predicate is indexed, and empty otherwise: empty for an unindexed
\* predicate even when requested, and empty for an indexed one when not requested.
C19_TokenizerIffRequestedAndIndexed ==
    Projected =>
        \A k \in DOMAIN node.out.result :
           LET n == node.out.result[k]
               e == node.cat.Entry[n.Predicate]
           IN n.Tokenizer = IF "tokenizer" \in Range(RequestedFields) /\ e.Indexed
                            THEN e.Tokenizers ELSE <<>>

\* C19 witness: "tokenizer" was requested, and the result has a node of an
\* unindexed predicate whose TokenizerNames() is not empty, and a node of an
\* indexed predicate with its tokenizer names.
C19_Witness ==
    /\ Projected
    /\ "tokenizer" \in Range(RequestedFields)
    /\ \E k \in DOMAIN node.out.result :
          /\ ~node.cat.Entry[node.out.result[k].Predicate].Indexed
          /\ node.cat.Entry[node.out.result[k].Predicate].Tokenizers # <<>>
          /\ node.out.result[k].Tokenizer = <<>>
    /\ \E k \in DOMAIN node.out.result : node.out.result[k].Tokenizer = <<"term">>

====
